---- MODULE Spec2Model ----
(***************************************************************************)
(* A dense set of natural numbers backed by a packed bit array: the owned  *)
(* container (src/src/owned.rs), the borrowed view (src/src/borrowed.rs),  *)
(* the word primitives and word iterator (src/src/inner.rs) and the two    *)
(* cursors (src/src/ascending.rs, src/src/descending.rs).                  *)
(*                                                                         *)
(* A word (Inner = u64) is represented by the set of the positions of its  *)
(* one-bits, a subset of 0..BITS-1; the bitwise operators of the source    *)
(* are the corresponding operations on such sets.  A slice index i of the  *)
(* source is the sequence index i + 1 here.                                *)
(***************************************************************************)
EXTENDS Integers, Sequences, FiniteSets

\* Largest number of words the buffer of a set may hold in the model.
MaxWords == 3

\* Longest sequence of indices handed to extend / from_iter.
MaxSeq == 2

\* Most words Vec::reserve allocates beyond the capacity it was asked for.
MaxSlack == 1

\* Number of bit positions at each end of a word from which the words handed
\* to the word iterator are built.
MaxSample == 2

\* Most members of a former set for it to be compared with the current set:
\* a full word and a few bits more.
MaxCompared == 72

\* Inner::BITS as usize
BITS_USIZE == 64

\* Inner::BITS as u8
BITS_U8 == 64

\* Inner::MAX and Inner::MIN
Inner_MAX == 0 .. (BITS_USIZE - 1)
Inner_MIN == {}

\* Option<T>
None == << >>
Some(x) == << x >>
is_none(o) == Len(o) = 0
is_some(o) == Len(o) = 1
Unit == "()"

\* The least and the greatest element of a non-empty set of naturals.
Min(S) == CHOOSE x \in S : S \cap (0 .. (x - 1)) = {}
Max(S) == CHOOSE x \in S : \A y \in S : x >= y

(***************************************************************************)
(* Word primitives, src/src/inner.rs                                       *)
(***************************************************************************)
bits_to_chunk(index) == index \div BITS_USIZE

chunk_to_bits(index) == index * BITS_USIZE

\* 1 << (bit % BITS_USIZE)
mask(bit) == { bit % BITS_USIZE }

\* inner & mask(bit) != 0
get(inner, bit) == (inner \cap mask(bit)) # {}

count_ones(inner) == Cardinality(inner)

count_zeros(inner) == BITS_USIZE - Cardinality(inner)

trailing_zeros(inner) == IF inner = {} THEN BITS_USIZE ELSE Min(inner)

\* The leading zeros of a word are the trailing zeros of its mirror image.
leading_zeros(inner) ==
    IF inner = {} THEN BITS_USIZE ELSE Min({ BITS_USIZE - 1 - b : b \in inner })

\* inner - 1 on a non-zero word: the lowest one-bit is cleared and every bit
\* below it is set (the borrow); 0 - 1 wraps to Inner::MAX.
minus_one(inner) ==
    IF inner = {} THEN Inner_MAX
    ELSE (inner \ { Min(inner) }) \cup (0 .. (Min(inner) - 1))

\* inner >> n
shift_right(inner, n) == { b - n : b \in { c \in inner : c >= n } }

(***************************************************************************)
(* Word iterator, src/src/inner.rs                                         *)
(***************************************************************************)
Iter_new(inner) == [ inner |-> inner, remaining |-> count_ones(inner) ]

\* Iter::next without self.inner &= self.inner - 1.
Iter_next_keeps_bit(it) ==
    IF it.remaining = 0 THEN [ it |-> it, ret |-> None ]
    ELSE [ it  |-> [ inner |-> it.inner, remaining |-> it.remaining - 1 ],
           ret |-> Some(trailing_zeros(it.inner)) ]

\* Iter::next: checked_sub(1)? returns None when remaining is 0.
Iter_next(it) ==
    IF it.remaining = 0 THEN [ it |-> it, ret |-> None ]
    ELSE [ it  |-> [ inner     |-> it.inner \cap minus_one(it.inner),
                     remaining |-> it.remaining - 1 ],
           ret |-> Some(trailing_zeros(it.inner)) ]

\* Iter::next_back with the mask Inner::MAX >> position, which keeps the bit
\* that was just yielded.
Iter_next_back_keeps_top(it) ==
    IF it.remaining = 0 THEN [ it |-> it, ret |-> None ]
    ELSE LET position == leading_zeros(it.inner) IN
         [ it  |-> [ inner     |-> it.inner \cap shift_right(Inner_MAX, position),
                     remaining |-> it.remaining - 1 ],
           ret |-> Some(BITS_U8 - position - 1) ]

\* Iter::next_back
Iter_next_back(it) ==
    IF it.remaining = 0 THEN [ it |-> it, ret |-> None ]
    ELSE LET position == leading_zeros(it.inner) IN
         [ it  |-> [ inner     |-> it.inner \cap
                                   shift_right(shift_right(Inner_MAX, 1), position),
                     remaining |-> it.remaining - 1 ],
           ret |-> Some(BITS_U8 - position - 1) ]

\* What n successive calls of next() (forward) or next_back() (otherwise)
\* yield, in order; the calls are split in halves to keep the evaluation
\* shallow.
RECURSIVE Iter_take(_, _, _)
Iter_take(it, forward, n) ==
    IF n = 0 THEN [ it |-> it, seq |-> << >> ]
    ELSE IF n = 1
    THEN LET r == IF forward THEN Iter_next(it) ELSE Iter_next_back(it) IN
         [ it |-> r.it, seq |-> r.ret ]
    ELSE LET l == Iter_take(it, forward, n \div 2) IN
         IF l.it.remaining = 0 THEN l
         ELSE LET r == Iter_take(l.it, forward, n - (n \div 2)) IN
              [ it |-> r.it, seq |-> l.seq \o r.seq ]

\* Iter::new(inner).collect() and Iter::new(inner).rev().collect(): next() or
\* next_back() until None.
Iter_collect(inner) == Iter_take(Iter_new(inner), TRUE, BITS_USIZE + 1).seq
Iter_rev_collect(inner) == Iter_take(Iter_new(inner), FALSE, BITS_USIZE + 1).seq

(***************************************************************************)
(* Borrowed view, src/src/borrowed.rs.  A view is [data, len].             *)
(***************************************************************************)
Borrowed_new(d, l) == [ data |-> d, len |-> l ]

Borrowed_maximum(b) == chunk_to_bits(Len(b.data))

Borrowed_len(b) == b.len

Borrowed_is_empty(b) == Borrowed_len(b) = 0

Borrowed_contains(b, index) ==
    LET offset == bits_to_chunk(index) IN
    offset < Len(b.data) /\ get(b.data[offset + 1], index)

(***************************************************************************)
(* Ascending cursor, src/src/ascending.rs.  A cursor is [end, len, cached] *)
(* over the words `data` its pointer `start` refers to.  An unchecked read *)
(* at an offset outside `data` is undefined behaviour: the step reports    *)
(* oob = TRUE and the traversal stops there.                               *)
(***************************************************************************)
Ascending_new(d, remaining) ==
    [ end |-> 0, len |-> remaining, cached |-> Iter_new(Inner_MIN) ]

RECURSIVE Ascending_find_non_zero(_, _)
Ascending_find_non_zero(d, a) ==
    IF a.end >= Len(d) THEN [ a |-> a, oob |-> TRUE ]
    ELSE LET inner == d[a.end + 1]
             a1    == [ a EXCEPT !.end = a.end + 1 ]
         IN  IF inner # {}
             THEN [ a |-> [ a1 EXCEPT !.cached = Iter_new(inner) ], oob |-> FALSE ]
             ELSE Ascending_find_non_zero(d, a1)

\* Ascending::next translating with the chunk after the one the cached word
\* came from (chunk_to_bits(self.end) for chunk_to_bits(self.end - 1)).
Ascending_next_base_end(d, a) ==
    IF a.len = 0 THEN [ a |-> a, ret |-> None, oob |-> FALSE ]
    ELSE LET a1 == [ a EXCEPT !.len = a.len - 1 ]
             f  == IF a1.cached.remaining = 0
                   THEN Ascending_find_non_zero(d, a1)
                   ELSE [ a |-> a1, oob |-> FALSE ]
             n  == Iter_next(f.a.cached)
         IN  IF f.oob THEN [ a |-> f.a, ret |-> None, oob |-> TRUE ]
             ELSE [ a   |-> [ f.a EXCEPT !.cached = n.it ],
                    ret |-> IF is_none(n.ret) THEN None
                            ELSE Some(chunk_to_bits(f.a.end) + n.ret[1]),
                    oob |-> FALSE ]

Ascending_next(d, a) ==
    IF a.len = 0 THEN [ a |-> a, ret |-> None, oob |-> FALSE ]
    ELSE LET a1 == [ a EXCEPT !.len = a.len - 1 ]
             f  == IF a1.cached.remaining = 0
                   THEN Ascending_find_non_zero(d, a1)
                   ELSE [ a |-> a1, oob |-> FALSE ]
             n  == Iter_next(f.a.cached)
         IN  IF f.oob THEN [ a |-> f.a, ret |-> None, oob |-> TRUE ]
             ELSE [ a   |-> [ f.a EXCEPT !.cached = n.it ],
                    ret |-> IF is_none(n.ret) THEN None
                            ELSE Some(chunk_to_bits(f.a.end - 1) + n.ret[1]),
                    oob |-> FALSE ]

\* What n successive calls of next() yield, in order (a None yields nothing);
\* the calls are split in halves to keep the evaluation shallow.  Collecting a
\* cursor calls next() once more than its remaining count: the last call is
\* the one that returns None.
RECURSIVE Ascending_take(_, _, _)
Ascending_take(d, a, n) ==
    IF n = 0 THEN [ a |-> a, seq |-> << >>, oob |-> FALSE ]
    ELSE IF n = 1
    THEN LET r == Ascending_next(d, a) IN
         [ a |-> r.a, seq |-> r.ret, oob |-> r.oob ]
    ELSE LET l == Ascending_take(d, a, n \div 2) IN
         IF l.oob THEN l
         ELSE LET r == Ascending_take(d, l.a, n - (n \div 2)) IN
              [ a |-> r.a, seq |-> l.seq \o r.seq, oob |-> r.oob ]

Ascending_collect(d, a) == Ascending_take(d, a, a.len + 1)

(***************************************************************************)
(* Descending cursor, src/src/descending.rs                                *)
(***************************************************************************)
Descending_new(d, remaining) ==
    [ end |-> Len(d), len |-> remaining, cached |-> Iter_new(Inner_MIN) ]

RECURSIVE Descending_find_non_zero(_, _)
Descending_find_non_zero(d, a) ==
    IF a.end = 0 THEN [ a |-> a, oob |-> TRUE ]
    ELSE LET a1    == [ a EXCEPT !.end = a.end - 1 ]
             inner == d[a1.end + 1]
         IN  IF inner # {}
             THEN [ a |-> [ a1 EXCEPT !.cached = Iter_new(inner) ], oob |-> FALSE ]
             ELSE Descending_find_non_zero(d, a1)

Descending_next(d, a) ==
    IF a.len = 0 THEN [ a |-> a, ret |-> None, oob |-> FALSE ]
    ELSE LET a1 == [ a EXCEPT !.len = a.len - 1 ]
             f  == IF a1.cached.remaining = 0
                   THEN Descending_find_non_zero(d, a1)
                   ELSE [ a |-> a1, oob |-> FALSE ]
             n  == Iter_next_back(f.a.cached)
         IN  IF f.oob THEN [ a |-> f.a, ret |-> None, oob |-> TRUE ]
             ELSE [ a   |-> [ f.a EXCEPT !.cached = n.it ],
                    ret |-> IF is_none(n.ret) THEN None
                            ELSE Some(chunk_to_bits(f.a.end) + n.ret[1]),
                    oob |-> FALSE ]

RECURSIVE Descending_take(_, _, _)
Descending_take(d, a, n) ==
    IF n = 0 THEN [ a |-> a, seq |-> << >>, oob |-> FALSE ]
    ELSE IF n = 1
    THEN LET r == Descending_next(d, a) IN
         [ a |-> r.a, seq |-> r.ret, oob |-> r.oob ]
    ELSE LET l == Descending_take(d, a, n \div 2) IN
         IF l.oob THEN l
         ELSE LET r == Descending_take(d, l.a, n - (n \div 2)) IN
              [ a |-> r.a, seq |-> l.seq \o r.seq, oob |-> r.oob ]

Descending_collect(d, a) == Descending_take(d, a, a.len + 1)

\* Borrowed::ascending / Borrowed::descending, collected
Borrowed_ascending(b) == Ascending_collect(b.data, Ascending_new(b.data, b.len))

Borrowed_descending(b) == Descending_collect(b.data, Descending_new(b.data, b.len))

(***************************************************************************)
(* Comparison of views, src/src/borrowed.rs.  Iterator::eq and             *)
(* Iterator::cmp advance the two ascending cursors in lockstep; a round    *)
(* calls next() on both and either decides ("Less", "Equal", "Greater") or *)
(* asks for another round ("More"); "UB" when a cursor read outside its    *)
(* buffer.  The rounds are split in halves to keep the evaluation shallow. *)
(***************************************************************************)
RECURSIVE Ascending_lockstep(_, _, _, _, _)
Ascending_lockstep(d1, a1, d2, a2, n) ==
    IF n = 0 THEN [ a1 |-> a1, a2 |-> a2, ord |-> "More" ]
    ELSE IF n = 1
    THEN LET x == Ascending_next(d1, a1)
             y == Ascending_next(d2, a2)
         IN  [ a1  |-> x.a,
               a2  |-> y.a,
               ord |-> IF x.oob \/ y.oob THEN "UB"
                       ELSE IF is_none(x.ret)
                            THEN (IF is_none(y.ret) THEN "Equal" ELSE "Less")
                       ELSE IF is_none(y.ret) THEN "Greater"
                       ELSE IF x.ret[1] < y.ret[1] THEN "Less"
                       ELSE IF x.ret[1] > y.ret[1] THEN "Greater"
                       ELSE "More" ]
    ELSE LET l == Ascending_lockstep(d1, a1, d2, a2, n \div 2) IN
         IF l.ord # "More" THEN l
         ELSE Ascending_lockstep(d1, l.a1, d2, l.a2, n - (n \div 2))

\* self.ascending().cmp(other.ascending()): the round after the last value of
\* self decides at the latest.
Ascending_cmp(b1, b2) ==
    Ascending_lockstep(b1.data, Ascending_new(b1.data, b1.len),
                       b2.data, Ascending_new(b2.data, b2.len), b1.len + 1).ord

\* self.ascending().eq(other.ascending())
Ascending_eq(b1, b2) == Ascending_cmp(b1, b2) = "Equal"

\* PartialEq for Borrowed comparing the views themselves, buffers included.
Borrowed_eq_raw(b1, b2) == b1 = b2

\* PartialEq for Borrowed
Borrowed_eq(b1, b2) == (b1.len = b2.len) /\ Ascending_eq(b1, b2)

\* Ord for Borrowed comparing the cardinalities first.
Borrowed_cmp_len_first(b1, b2) ==
    IF b1.len < b2.len THEN "Less"
    ELSE IF b1.len > b2.len THEN "Greater"
    ELSE Ascending_cmp(b1, b2)

\* Ord for Borrowed
Borrowed_cmp(b1, b2) == Ascending_cmp(b1, b2)

(***************************************************************************)
(* Owned container, src/src/owned.rs.  A set is [data, len]: the boxed     *)
(* slice of words and the tracked number of one-bits.                      *)
(***************************************************************************)
Owned_new == [ data |-> << >>, len |-> 0 ]

\* alloc::vec![0; maximum]: `maximum` words, all zero
with_maximum(maximum) == [ data |-> [ i \in 1 .. maximum |-> Inner_MIN ], len |-> 0 ]

as_slice(s) == Borrowed_new(s.data, s.len)

maximum(s) == Borrowed_maximum(as_slice(s))

len_of(s) == Borrowed_len(as_slice(s))

is_empty(s) == Borrowed_is_empty(as_slice(s))

contains(s, value) == Borrowed_contains(as_slice(s), value)

ascending(s) == Borrowed_ascending(as_slice(s))

descending(s) == Borrowed_descending(as_slice(s))

\* PartialEq for Owned
Owned_eq(s1, s2) == Borrowed_eq(as_slice(s1), as_slice(s2))

\* Ord for Owned
Owned_cmp(s1, s2) == Borrowed_cmp(as_slice(s1), as_slice(s2))

\* Owned::insert without the membership test: always sets, counts and
\* reports the value as new.
insert_always_fresh(s, value) ==
    LET offset == bits_to_chunk(value) IN
    IF offset >= Len(s.data) THEN [ s |-> s, ret |-> None ]
    ELSE [ s   |-> [ data |-> [ s.data EXCEPT ![offset + 1] = @ \cup mask(value) ],
                     len  |-> s.len + 1 ],
           ret |-> Some(FALSE) ]

\* Owned::insert: data.get_mut(offset) is None when offset is past the buffer.
insert(s, value) ==
    LET offset == bits_to_chunk(value) IN
    IF offset >= Len(s.data) THEN [ s |-> s, ret |-> None ]
    ELSE LET inner == s.data[offset + 1] IN
         IF get(inner, value) THEN [ s |-> s, ret |-> Some(TRUE) ]
         ELSE [ s   |-> [ data |-> [ s.data EXCEPT ![offset + 1] = inner \cup mask(value) ],
                          len  |-> s.len + 1 ],
                ret |-> Some(FALSE) ]

\* Owned::insert_chunk adding count_ones where count_zeros is due.
insert_chunk_adds_ones(s, offset) ==
    IF offset >= Len(s.data) THEN [ s |-> s, ret |-> None ]
    ELSE LET inner == s.data[offset + 1] IN
         [ s   |-> [ data |-> [ s.data EXCEPT ![offset + 1] = Inner_MAX ],
                     len  |-> s.len + count_ones(inner) ],
           ret |-> Some(inner) ]

\* Owned::insert_chunk: returns the word that was replaced.
insert_chunk(s, offset) ==
    IF offset >= Len(s.data) THEN [ s |-> s, ret |-> None ]
    ELSE LET inner == s.data[offset + 1]
             zeros == count_zeros(inner)
         IN  [ s   |-> [ data |-> [ s.data EXCEPT ![offset + 1] = Inner_MAX ],
                         len  |-> s.len + zeros ],
               ret |-> Some(inner) ]

\* for value in lo..hi { self.insert(value)?; }   (ok = FALSE: the ? returned)
\* for value in lo..hi { self.insert(value); } without the ? on the result.
RECURSIVE insert_each_unchecked(_, _, _)
insert_each_unchecked(s, lo, hi) ==
    IF lo >= hi THEN [ s |-> s, ok |-> TRUE ]
    ELSE insert_each_unchecked(insert(s, lo).s, lo + 1, hi)

RECURSIVE insert_each(_, _, _)
insert_each(s, lo, hi) ==
    IF lo >= hi THEN [ s |-> s, ok |-> TRUE ]
    ELSE LET r == insert(s, lo) IN
         IF is_none(r.ret) THEN [ s |-> r.s, ok |-> FALSE ]
         ELSE insert_each(r.s, lo + 1, hi)

\* for offset in lo..hi { self.insert_chunk(offset)?; }
RECURSIVE insert_chunks(_, _, _)
insert_chunks(s, lo, hi) ==
    IF lo >= hi THEN [ s |-> s, ok |-> TRUE ]
    ELSE LET r == insert_chunk(s, lo) IN
         IF is_none(r.ret) THEN [ s |-> r.s, ok |-> FALSE ]
         ELSE insert_chunks(r.s, lo + 1, hi)

\* Owned::insert_all with the whole-word loop ahead of the two partial words.
insert_all_chunks_first(s, start, end) ==
    LET start_chunk == bits_to_chunk(start)
        naive_end   == IF chunk_to_bits(start_chunk + 1) < end
                       THEN chunk_to_bits(start_chunk + 1) ELSE end
        end_chunk   == bits_to_chunk(end)
        naive_start == IF chunk_to_bits(end_chunk) > start
                       THEN chunk_to_bits(end_chunk) ELSE start
        l1 == insert_chunks(s, start_chunk + 1, end_chunk)
        l2 == insert_each(l1.s, start, naive_end)
        l3 == insert_each(l2.s, naive_start, end)
    IN  IF ~l1.ok THEN [ s |-> l1.s, ret |-> None ]
        ELSE IF ~l2.ok THEN [ s |-> l2.s, ret |-> None ]
        ELSE IF ~l3.ok THEN [ s |-> l3.s, ret |-> None ]
        ELSE [ s |-> l3.s, ret |-> Some(Unit) ]

\* Owned::insert_all with the whole-word loop starting at start_chunk.
insert_all_from_start_chunk(s, start, end) ==
    LET start_chunk == bits_to_chunk(start)
        naive_end   == IF chunk_to_bits(start_chunk + 1) < end
                       THEN chunk_to_bits(start_chunk + 1) ELSE end
        end_chunk   == bits_to_chunk(end)
        naive_start == IF chunk_to_bits(end_chunk) > start
                       THEN chunk_to_bits(end_chunk) ELSE start
        l1 == insert_each(s, start, naive_end)
        l2 == insert_each(l1.s, naive_start, end)
        l3 == insert_chunks(l2.s, start_chunk, end_chunk)
    IN  IF ~l1.ok THEN [ s |-> l1.s, ret |-> None ]
        ELSE IF ~l2.ok THEN [ s |-> l2.s, ret |-> None ]
        ELSE IF ~l3.ok THEN [ s |-> l3.s, ret |-> None ]
        ELSE [ s |-> l3.s, ret |-> Some(Unit) ]

\* Owned::insert_all
insert_all(s, start, end) ==
    LET start_chunk == bits_to_chunk(start)
        naive_end   == IF chunk_to_bits(start_chunk + 1) < end
                       THEN chunk_to_bits(start_chunk + 1) ELSE end
        end_chunk   == bits_to_chunk(end)
        naive_start == IF chunk_to_bits(end_chunk) > start
                       THEN chunk_to_bits(end_chunk) ELSE start
        l1 == insert_each(s, start, naive_end)
        l2 == insert_each(l1.s, naive_start, end)
        l3 == insert_chunks(l2.s, start_chunk + 1, end_chunk)
    IN  IF ~l1.ok THEN [ s |-> l1.s, ret |-> None ]
        ELSE IF ~l2.ok THEN [ s |-> l2.s, ret |-> None ]
        ELSE IF ~l3.ok THEN [ s |-> l3.s, ret |-> None ]
        ELSE [ s |-> l3.s, ret |-> Some(Unit) ]

\* Owned::remove answering Some(false) for a value past the buffer.
remove_past_buffer_false(s, value) ==
    LET offset == bits_to_chunk(value) IN
    IF offset >= Len(s.data) THEN [ s |-> s, ret |-> Some(FALSE) ]
    ELSE LET inner == s.data[offset + 1] IN
         IF get(inner, value)
         THEN [ s   |-> [ data |-> [ s.data EXCEPT ![offset + 1] = inner \ mask(value) ],
                          len  |-> s.len - 1 ],
                ret |-> Some(TRUE) ]
         ELSE [ s |-> s, ret |-> Some(FALSE) ]

\* Owned::remove without `self.len -= 1`.
remove_keeps_len(s, value) ==
    LET offset == bits_to_chunk(value) IN
    IF offset >= Len(s.data) THEN [ s |-> s, ret |-> None ]
    ELSE LET inner == s.data[offset + 1] IN
         IF get(inner, value)
         THEN [ s   |-> [ s EXCEPT !.data[offset + 1] = inner \ mask(value) ],
                ret |-> Some(TRUE) ]
         ELSE [ s |-> s, ret |-> Some(FALSE) ]

\* Owned::remove
remove(s, value) ==
    LET offset == bits_to_chunk(value) IN
    IF offset >= Len(s.data) THEN [ s |-> s, ret |-> None ]
    ELSE LET inner == s.data[offset + 1] IN
         IF get(inner, value)
         THEN [ s   |-> [ data |-> [ s.data EXCEPT ![offset + 1] = inner \ mask(value) ],
                          len  |-> s.len - 1 ],
                ret |-> Some(TRUE) ]
         ELSE [ s |-> s, ret |-> Some(FALSE) ]

\* Owned::remove_chunk without `self.len -= ones`.
remove_chunk_keeps_len(s, offset) ==
    IF offset >= Len(s.data) THEN [ s |-> s, ret |-> None ]
    ELSE [ s   |-> [ s EXCEPT !.data[offset + 1] = Inner_MIN ],
           ret |-> Some(s.data[offset + 1]) ]

\* Owned::remove_chunk
remove_chunk(s, offset) ==
    IF offset >= Len(s.data) THEN [ s |-> s, ret |-> None ]
    ELSE LET inner == s.data[offset + 1]
             ones  == count_ones(inner)
         IN  [ s   |-> [ data |-> [ s.data EXCEPT ![offset + 1] = Inner_MIN ],
                         len  |-> s.len - ones ],
               ret |-> Some(inner) ]

RECURSIVE remove_each(_, _, _)
remove_each(s, lo, hi) ==
    IF lo >= hi THEN [ s |-> s, ok |-> TRUE ]
    ELSE LET r == remove(s, lo) IN
         IF is_none(r.ret) THEN [ s |-> r.s, ok |-> FALSE ]
         ELSE remove_each(r.s, lo + 1, hi)

RECURSIVE remove_chunks(_, _, _)
remove_chunks(s, lo, hi) ==
    IF lo >= hi THEN [ s |-> s, ok |-> TRUE ]
    ELSE LET r == remove_chunk(s, lo) IN
         IF is_none(r.ret) THEN [ s |-> r.s, ok |-> FALSE ]
         ELSE remove_chunks(r.s, lo + 1, hi)

\* Owned::remove_all
remove_all(s, start, end) ==
    LET start_chunk == bits_to_chunk(start)
        naive_end   == IF chunk_to_bits(start_chunk + 1) < end
                       THEN chunk_to_bits(start_chunk + 1) ELSE end
        end_chunk   == bits_to_chunk(end)
        naive_start == IF chunk_to_bits(end_chunk) > start
                       THEN chunk_to_bits(end_chunk) ELSE start
        l1 == remove_each(s, start, naive_end)
        l2 == remove_each(l1.s, naive_start, end)
        l3 == remove_chunks(l2.s, start_chunk + 1, end_chunk)
    IN  IF ~l1.ok THEN [ s |-> l1.s, ret |-> None ]
        ELSE IF ~l2.ok THEN [ s |-> l2.s, ret |-> None ]
        ELSE IF ~l3.ok THEN [ s |-> l3.s, ret |-> None ]
        ELSE [ s |-> l3.s, ret |-> Some(Unit) ]

\* Owned::clear.  get_unchecked_mut(position) at a position outside the buffer
\* is undefined behaviour: the loop reports oob = TRUE and stops there.
RECURSIVE clear_loop(_, _, _, _)
clear_loop(d, position, removed, l) ==
    IF ~(removed < l) THEN [ data |-> d, oob |-> FALSE ]
    ELSE IF position >= Len(d) THEN [ data |-> d, oob |-> TRUE ]
    ELSE LET word == d[position + 1] IN
         IF word # {}
         THEN clear_loop([ d EXCEPT ![position + 1] = Inner_MIN ], position + 1,
                         removed + count_ones(word), l)
         ELSE clear_loop(d, position + 1, removed, l)

\* Owned::clear stopping one one-bit short (while removed + 1 < self.len).
clear_stops_early(s) ==
    LET r == clear_loop(s.data, 0, 0, s.len - 1) IN
    [ s |-> [ data |-> r.data, len |-> 0 ], oob |-> r.oob ]

clear(s) ==
    LET r == clear_loop(s.data, 0, 0, s.len) IN
    [ s |-> [ data |-> r.data, len |-> 0 ], oob |-> r.oob ]

(***************************************************************************)
(* The Vec<Inner> that Owned::with_buffer hands to its handler.  It comes  *)
(* from Box<[Inner]>::into_vec, so its capacity equals its length, and     *)
(* into_boxed_slice gives back exactly its elements.  Vec::reserve only    *)
(* promises capacity >= len + additional; `slack` is what the allocation   *)
(* policy adds beyond that (0 for an exact allocation).                    *)
(***************************************************************************)
Vec_reserve(length, capacity, additional, slack) ==
    IF capacity - length >= additional THEN capacity
    ELSE length + additional + slack

\* Vec::resize(new_len, 0)
Vec_resize(d, new_len) ==
    [ i \in 1 .. new_len |-> IF i <= Len(d) THEN d[i] ELSE Inner_MIN ]

\* Vec::truncate(n)
Vec_truncate(d, n) == IF n >= Len(d) THEN d ELSE SubSeq(d, 1, n)

\* Owned::grow_maximum reserving offset - capacity words, one short.
grow_maximum_one_short(s, m, slack) ==
    LET offset == bits_to_chunk(m) IN
    IF offset >= Len(s.data)
    THEN LET capacity == Vec_reserve(Len(s.data), Len(s.data),
                                     offset - Len(s.data), slack)
         IN  [ s EXCEPT !.data = Vec_resize(s.data, capacity) ]
    ELSE s

\* Owned::grow_maximum growing only when offset > self.data.len().
grow_maximum_strict(s, m, slack) ==
    LET offset == bits_to_chunk(m) IN
    IF offset > Len(s.data)
    THEN LET capacity == Vec_reserve(Len(s.data), Len(s.data),
                                     offset + 1 - Len(s.data), slack)
         IN  [ s EXCEPT !.data = Vec_resize(s.data, capacity) ]
    ELSE s

\* Owned::grow_maximum
grow_maximum(s, m, slack) ==
    LET offset == bits_to_chunk(m) IN
    IF offset >= Len(s.data)
    THEN LET capacity == Vec_reserve(Len(s.data), Len(s.data),
                                     offset + 1 - Len(s.data), slack)
         IN  [ s EXCEPT !.data = Vec_resize(s.data, capacity) ]
    ELSE s

\* rposition(..).map_or(0, |index| index): the index of the last non-zero word.
last_non_zero_index(d) ==
    IF \E i \in 1 .. Len(d) : d[i] # {}
    THEN Max({ i \in 1 .. Len(d) : d[i] # {} }) - 1
    ELSE 0

\* iter().rposition(|&value| value != 0).map_or(0, |index| index + 1)
last_non_zero(d) ==
    IF \E i \in 1 .. Len(d) : d[i] # {}
    THEN Max({ i \in 1 .. Len(d) : d[i] # {} })
    ELSE 0

\* Owned::shrink_to_fit
shrink_to_fit(s) == [ s EXCEPT !.data = Vec_truncate(s.data, last_non_zero(s.data)) ]

\* Owned::grow_insert growing to cover `value` instead of `value + 1`.
grow_insert_grows_to_value(s, value, slack) ==
    insert(grow_maximum(s, value, slack), value)

\* Owned::grow_insert; ret is what insert returned before unwrap_unchecked.
grow_insert(s, value, slack) == insert(grow_maximum(s, value + 1, slack), value)

\* Owned::grow_insert_all; ret is what insert_all returned before unwrap_unchecked.
grow_insert_all(s, start, end, slack) ==
    insert_all(grow_maximum(s, end, slack), start, end)

\* Owned::clone_from_slice without self.len = source.len.
clone_from_slice_keeps_len(s, source, slack) ==
    LET capacity == Vec_reserve(0, Len(s.data), Len(source.data), slack) IN
    [ data |-> Vec_resize(source.data, capacity), len |-> s.len ]

\* Owned::clone_from_slice without the resize to the capacity.
clone_from_slice_exact(s, source, slack) ==
    [ data |-> source.data, len |-> source.len ]

\* Owned::clone_from_slice: clear, extend_from_slice (which reserves when the
\* source is longer than the capacity), resize to the capacity.
clone_from_slice(s, source, slack) ==
    LET capacity == Vec_reserve(0, Len(s.data), Len(source.data), slack) IN
    [ data |-> Vec_resize(source.data, capacity), len |-> source.len ]

\* Extend::extend: grow_insert of each index, in order.
RECURSIVE extend(_, _, _)
extend(s, iter, slack) ==
    IF iter = << >> THEN s
    ELSE extend(grow_insert(s, Head(iter), slack).s, Tail(iter), slack)

\* FromIterator::from_iter
from_iter(iter, slack) == extend(Owned_new, iter, slack)

(***************************************************************************)
(* The state machine: one Owned set, and the record of the last call made  *)
(* on it.  The record is kept in Spec; SpecSets makes the same calls       *)
(* without keeping it, so that its states are the reachable sets.          *)
(***************************************************************************)
VARIABLES
    data,      \* Owned.data: the words of the buffer
    len,       \* Owned.len: the tracked number of one-bits
    op,        \* name of the last call
    args,      \* its arguments
    ret,       \* what it returned
    pre,       \* the set [data, len] as it was before the last call
    chained,   \* after remove(v) that directly follows insert(v): Some(the set
               \* before that insert); None after anything else
    ub,        \* TRUE once a call has made an out-of-bounds unchecked access
               \* or unwrapped a None unchecked
    traced,    \* TRUE when op, args, ret, pre and chained record the last call
    inner,     \* Iter.inner: the bits a word iterator has still to yield
    remaining, \* Iter.remaining: its tracked number of bits to come
    word,      \* the word that iterator was constructed from
    front,     \* what its next() calls returned, in order
    back,      \* what its next_back() calls returned, in order
    last       \* its last call: name, return value, the iterator before it

vars == << data, len, op, args, ret, pre, chained, ub, traced,
           inner, remaining, word, front, back, last >>

\* The variables of the set and those of the word iterator.
ownedVars == << data, len, op, args, ret, pre, chained, ub, traced >>
iterVars == << inner, remaining, word, front, back, last >>

\* The set held in the current state.
Cur == [ data |-> data, len |-> len ]

\* Indices handed to insert, remove, grow_insert and extend: the last bit of
\* the first word and a bit of the last of MaxWords words.
Values == { BITS_USIZE - 1, chunk_to_bits(MaxWords - 1) + 1 }

\* Range starts handed to insert_all, remove_all and grow_insert_all: two bits
\* before the end of the first word, the last bit of the last word but one, and
\* the first index past MaxWords words.
RangeStarts ==
    { BITS_USIZE - 2, chunk_to_bits(MaxWords - 1) - 1, chunk_to_bits(MaxWords) }

\* Range ends (exclusive): the end of the first word, two bits into the last
\* word, and the end of the last word.
RangeEnds ==
    { BITS_USIZE, chunk_to_bits(MaxWords - 1) + 2, chunk_to_bits(MaxWords) }

\* What Vec::reserve may add beyond the requested capacity, when it is called
\* (needed); a call that does not reserve consults no allocation policy.
Slacks(needed) == IF needed THEN 0 .. MaxSlack ELSE { 0 }

\* Index sequences handed to extend and from_iter.
Iters == UNION { [ 1 .. n -> Values ] : n \in 0 .. MaxSeq }

\* Views handed to clone_from_slice, each with len equal to its one-bits.
Sources ==
    { as_slice(from_iter(it, 0)) :
        it \in { << >>, << BITS_USIZE - 1 >>, << chunk_to_bits(MaxWords - 1) + 1 >> } }
    \cup { as_slice(with_maximum(1)) }

\* Every index a set of the model can hold, and one word more.
Universe == 0 .. (chunk_to_bits(MaxWords + 1) - 1)

Fits(s) == Len(s.data) <= MaxWords

\* The state after a call that took the set from Cur to s.
Called(name, a, s, r, u) ==
    /\ data' = s.data
    /\ len' = s.len
    /\ ub' = u
    /\ IF traced
       THEN /\ op' = name
            /\ args' = a
            /\ ret' = r
            /\ pre' = Cur
            /\ chained' = IF name = "remove" /\ op = "insert" /\ args = a
                          THEN Some(pre) ELSE None
       ELSE UNCHANGED << op, args, ret, pre, chained >>
    /\ UNCHANGED traced
    /\ UNCHANGED iterVars

\* The state after Iter::new(w), before any call on the iterator.
Iter_constructed(w) ==
    /\ inner = Iter_new(w).inner
    /\ remaining = Iter_new(w).remaining
    /\ word = w
    /\ front = << >>
    /\ back = << >>
    /\ last = [ call |-> "new", ret |-> None, before |-> Iter_new(w) ]

\* The constructors: Owned::new(), Owned::with_maximum(m), and
\* FromIterator::from_iter(it).
Constructed ==
    { [ s |-> Owned_new, op |-> "new", args |-> << >> ] }
    \cup { [ s |-> with_maximum(m), op |-> "with_maximum", args |-> << m >> ] :
             m \in 0 .. MaxWords }
    \cup { [ s |-> from_iter(c[1], c[2]), op |-> "from_iter", args |-> << c[1] >> ] :
             c \in Iters \X Slacks(TRUE) }

Init ==
    \E c \in Constructed :
        /\ Fits(c.s)
        /\ data = c.s.data
        /\ len = c.s.len
        /\ op = c.op
        /\ args = c.args
        /\ ret = None
        /\ pre = Owned_new
        /\ chained = None
        /\ ub = FALSE
        /\ traced = TRUE
        /\ Iter_constructed(Inner_MIN)

\* The same constructors, with no record of the calls.
InitSets ==
    \E c \in Constructed :
        /\ Fits(c.s)
        /\ data = c.s.data
        /\ len = c.s.len
        /\ op = "new"
        /\ args = << >>
        /\ ret = None
        /\ pre = Owned_new
        /\ chained = None
        /\ ub = FALSE
        /\ traced = FALSE
        /\ Iter_constructed(Inner_MIN)

\* Once a call has run into undefined behaviour nothing is known of the set:
\* every call is guarded by ~ub.
Insert ==
    \E value \in Values :
        LET r == insert(Cur, value) IN
        /\ ~ub
        /\ Called("insert", << value >>, r.s, r.ret, FALSE)

Remove ==
    \E value \in Values :
        LET r == remove(Cur, value) IN
        /\ ~ub
        /\ Called("remove", << value >>, r.s, r.ret, FALSE)

InsertAll ==
    \E start \in RangeStarts, end \in RangeEnds :
        LET r == insert_all(Cur, start, end) IN
        /\ ~ub
        /\ Called("insert_all", << start, end >>, r.s, r.ret, FALSE)

RemoveAll ==
    \E start \in RangeStarts, end \in RangeEnds :
        LET r == remove_all(Cur, start, end) IN
        /\ ~ub
        /\ Called("remove_all", << start, end >>, r.s, r.ret, FALSE)

GrowInsert ==
    \E value \in Values :
      \E slack \in Slacks(bits_to_chunk(value + 1) >= Len(data)) :
        LET r == grow_insert(Cur, value, slack) IN
        /\ ~ub
        /\ Fits(r.s)
        /\ Called("grow_insert", << value >>, r.s, r.ret, is_none(r.ret))

GrowInsertAll ==
    \E start \in RangeStarts, end \in RangeEnds :
      \E slack \in Slacks(bits_to_chunk(end) >= Len(data)) :
        LET r == grow_insert_all(Cur, start, end, slack) IN
        /\ ~ub
        /\ Fits(r.s)
        /\ Called("grow_insert_all", << start, end >>, r.s, r.ret, is_none(r.ret))

GrowMaximum ==
    \E m \in Values \cup RangeEnds :
      \E slack \in Slacks(bits_to_chunk(m) >= Len(data)) :
        LET s == grow_maximum(Cur, m, slack) IN
        /\ ~ub
        /\ Fits(s)
        /\ Called("grow_maximum", << m >>, s, Some(Unit), FALSE)

ShrinkToFit ==
    /\ ~ub
    /\ Called("shrink_to_fit", << >>, shrink_to_fit(Cur), Some(Unit), FALSE)

Clear ==
    LET r == clear(Cur) IN
    /\ ~ub
    /\ Called("clear", << >>, r.s, Some(Unit), r.oob)

CloneFromSlice ==
    \E source \in Sources :
      \E slack \in Slacks(Len(source.data) > Len(data)) :
        LET s == clone_from_slice(Cur, source, slack) IN
        /\ ~ub
        /\ Fits(s)
        /\ Called("clone_from_slice", << source >>, s, Some(Unit), FALSE)

Extend ==
    \E it \in Iters :
      \E slack \in Slacks(\E i \in 1 .. Len(it) : bits_to_chunk(it[i] + 1) >= Len(data)) :
        LET s == extend(Cur, it, slack) IN
        /\ ~ub
        /\ Fits(s)
        /\ Called("extend", << it >>, s, Some(Unit), FALSE)

Next ==
    \/ Insert
    \/ Remove
    \/ InsertAll
    \/ RemoveAll
    \/ GrowInsert
    \/ GrowInsertAll
    \/ GrowMaximum
    \/ ShrinkToFit
    \/ Clear
    \/ CloneFromSlice
    \/ Extend

Spec == Init /\ [][Next]_vars

SpecSets == InitSets /\ [][Next]_vars

(***************************************************************************)
(* The word iterator on its own: Iter::new(w) for a word w, then next()    *)
(* and next_back() in any order, also after exhaustion.                    *)
(***************************************************************************)
\* Bit positions at both ends and in the middle of a word.
SampleBits ==
    (0 .. (MaxSample - 1))
    \cup { BITS_USIZE \div 2 }
    \cup ((BITS_USIZE - MaxSample) .. (BITS_USIZE - 1))

\* Words handed to Iter::new: every word over the sample positions, and the
\* word of all ones.
Words == (SUBSET SampleBits) \cup { Inner_MAX }

\* The iterator held in the current state.
CurIter == [ inner |-> inner, remaining |-> remaining ]

InitIter ==
    /\ \E w \in Words : Iter_constructed(w)
    /\ data = Owned_new.data
    /\ len = Owned_new.len
    /\ op = "new"
    /\ args = << >>
    /\ ret = None
    /\ pre = Owned_new
    /\ chained = None
    /\ ub = FALSE
    /\ traced = FALSE

\* The state after a call on the iterator that left it as r.it and returned
\* r.ret.
Stepped(name, r) ==
    /\ inner' = r.it.inner
    /\ remaining' = r.it.remaining
    /\ last' = [ call |-> name, ret |-> r.ret, before |-> CurIter ]
    /\ UNCHANGED word
    /\ UNCHANGED ownedVars

IterNext ==
    LET r == Iter_next(CurIter) IN
    /\ front' = front \o r.ret
    /\ back' = back
    /\ Stepped("next", r)

IterNextBack ==
    LET r == Iter_next_back(CurIter) IN
    /\ front' = front
    /\ back' = back \o r.ret
    /\ Stepped("next_back", r)

NextIter ==
    \/ IterNext
    \/ IterNextBack

SpecIter == InitIter /\ [][NextIter]_vars

(***************************************************************************)
(* What a caller can observe of a set.                                     *)
(***************************************************************************)
\* The indices i for which contains(i) is true.
Members(s) == { i \in Universe : contains(s, i) }

\* The population count of the word buffer.
RECURSIVE PopCount(_)
PopCount(d) == IF d = << >> THEN 0 ELSE count_ones(Head(d)) + PopCount(Tail(d))

\* The half-open range [a, b) as a set and as the sequence a, a+1, ..., b-1.
Range(a, b) == { i \in Universe : a <= i /\ i < b }
SeqRange(a, b) == [ i \in 1 .. (IF b > a THEN b - a ELSE 0) |-> a + i - 1 ]

Elements(q) == { q[i] : i \in 1 .. Len(q) }
Reverse(q) == [ i \in 1 .. Len(q) |-> q[Len(q) + 1 - i] ]
StrictlyIncreasing(q) == \A i \in 1 .. (Len(q) - 1) : q[i] < q[i + 1]
StrictlyDecreasing(q) == \A i \in 1 .. (Len(q) - 1) : q[i] > q[i + 1]

\* Membership of every index, len() and maximum().
Observable(s) == [ members |-> Members(s), len |-> len_of(s), maximum |-> maximum(s) ]

\* A zero word lies between two non-zero words of the buffer.
ZeroWordBetween(d) ==
    \E i \in 2 .. (Len(d) - 1) : d[i] = {} /\ d[i - 1] # {} /\ d[i + 1] # {}

(***************************************************************************)
(* C1  Cardinality invariant: after any sequence of public mutating calls, *)
(* including insert_all / remove_all calls that return None part-way,      *)
(* len() equals the number of indices i for which contains(i) is true,     *)
(* which is the population count of the word buffer.                       *)
(***************************************************************************)
C1_CardinalityInvariant ==
    /\ len_of(Cur) = Cardinality(Members(Cur))
    /\ len_of(Cur) = PopCount(data)

\* insert_all returned None after it had already inserted part of the range.
C1_Witness ==
    /\ op = "insert_all"
    /\ is_none(ret)
    /\ len > pre.len
    /\ pre.len > 0

(***************************************************************************)
(* C2  ascending() yields exactly len() values, in strictly increasing     *)
(* order, and they are exactly the indices i with contains(i): no member   *)
(* omitted, no non-member produced, across zero words and word boundaries. *)
(***************************************************************************)
C2_AscendingExact ==
    LET r == ascending(Cur) IN
    /\ ~r.oob
    /\ Len(r.seq) = len_of(Cur)
    /\ StrictlyIncreasing(r.seq)
    /\ Elements(r.seq) = Members(Cur)

\* Members on both sides of a zero word, one of them the last bit of a word.
C2_Witness ==
    /\ ZeroWordBetween(data)
    /\ contains(Cur, BITS_USIZE - 1)
    /\ len >= 2

(***************************************************************************)
(* C3  Ascending/descending duality: descending() yields exactly the       *)
(* reverse of what ascending() yields over the same buffer: same length,   *)
(* same elements, strictly decreasing.                                     *)
(***************************************************************************)
C3_Duality ==
    LET a == ascending(Cur)
        d == descending(Cur)
    IN  /\ ~d.oob
        /\ d.seq = Reverse(a.seq)
        /\ Len(d.seq) = Len(a.seq)
        /\ StrictlyDecreasing(d.seq)

\* Several bits in one word, members in a later word, and a trailing zero word
\* the descending cursor has to skip first.
C3_Witness ==
    /\ Len(data) >= 3
    /\ data[Len(data)] = {}
    /\ count_ones(data[1]) >= 2
    /\ data[2] # {}

(***************************************************************************)
(* C4  Range equivalence.  The reference the bulk calls are compared with: *)
(* insert(v), resp. remove(v), called for each v = lo, lo+1, ..., hi-1 in  *)
(* order, whatever each call returns; nones counts the calls that returned  *)
(* None (the calls are split in halves to keep the evaluation shallow).    *)
(***************************************************************************)
RECURSIVE insert_looped(_, _, _)
insert_looped(s, lo, hi) ==
    IF lo >= hi THEN [ s |-> s, nones |-> 0 ]
    ELSE IF hi = lo + 1
    THEN LET r == insert(s, lo) IN
         [ s |-> r.s, nones |-> IF is_none(r.ret) THEN 1 ELSE 0 ]
    ELSE LET mid == (lo + hi) \div 2
             l   == insert_looped(s, lo, mid)
             r   == insert_looped(l.s, mid, hi)
         IN  [ nones |-> l.nones + r.nones, s |-> r.s ]

RECURSIVE remove_looped(_, _, _)
remove_looped(s, lo, hi) ==
    IF lo >= hi THEN [ s |-> s, nones |-> 0 ]
    ELSE IF hi = lo + 1
    THEN LET r == remove(s, lo) IN
         [ s |-> r.s, nones |-> IF is_none(r.ret) THEN 1 ELSE 0 ]
    ELSE LET mid == (lo + hi) \div 2
             l   == remove_looped(s, lo, mid)
             r   == remove_looped(l.s, mid, hi)
         IN  [ nones |-> l.nones + r.nones, s |-> r.s ]

\* The state after the last call is observably the state the loop gives.
BulkEqualsLoop ==
    \/ /\ op = "insert_all"
       /\ Observable(Cur) = Observable(insert_looped(pre, args[1], args[2]).s)
    \/ /\ op = "remove_all"
       /\ Observable(Cur) = Observable(remove_looped(pre, args[1], args[2]).s)

\* C4 as claimed: for any set state and any start <= end, insert_all(start, end)
\* leaves the same membership, len() and maximum() as insert(v) for each v of
\* start..end in order; likewise remove_all and looped remove.
C4_RangeEquivalence ==
    (op \in { "insert_all", "remove_all" } /\ args[1] <= args[2]) => BulkEqualsLoop

\* C4 as amended: the equivalence holds for any start <= end such that no index
\* of [start, end) lies beyond capacity (the range is empty or end <= maximum()).
C4_RangeEquivalenceInCapacity ==
    ( /\ op \in { "insert_all", "remove_all" }
      /\ args[1] <= args[2]
      /\ (args[1] = args[2] \/ args[2] <= maximum(pre)) )
    => BulkEqualsLoop

\* insert_all over a partial leading word, a whole interior word and a partial
\* trailing word, all in capacity, on a set that held some of the range.
C4_Witness ==
    /\ op = "insert_all"
    /\ args[2] <= maximum(pre)
    /\ args[1] % BITS_USIZE # 0
    /\ args[2] % BITS_USIZE # 0
    /\ bits_to_chunk(args[2]) > bits_to_chunk(args[1]) + 1
    /\ pre.len > 0
    /\ len > pre.len

(***************************************************************************)
(* C5  grow_insert_all(start, end) never fails for start <= end:           *)
(* afterwards every index of [start, end) is a member, membership outside  *)
(* the range is unchanged, and len() has grown by exactly the number of    *)
(* indices of the range that were absent; on an empty set ascending()      *)
(* then yields exactly start..end.                                         *)
(***************************************************************************)
C5_GrowInsertAll ==
    (op = "grow_insert_all" /\ args[1] <= args[2]) =>
        LET r == Range(args[1], args[2]) IN
        /\ ~ub
        /\ ret = Some(Unit)
        /\ Members(Cur) = Members(pre) \cup r
        /\ len_of(Cur) = len_of(pre) + Cardinality(r \ Members(pre))
        /\ (len_of(pre) = 0 => ascending(Cur).seq = SeqRange(args[1], args[2]))

\* The call had to grow the buffer, and part of the range was already there.
C5_Witness ==
    /\ op = "grow_insert_all"
    /\ args[1] < args[2]
    /\ Len(data) > Len(pre.data)
    /\ Range(args[1], args[2]) \cap Members(pre) # {}
    /\ Range(args[1], args[2]) \ Members(pre) # {}

(***************************************************************************)
(* C6  For start <= end with every index of [start, end) within capacity,  *)
(* remove_all(start, end) returns Some(()), removes exactly the members in *)
(* [start, end), keeps every member outside it and decreases len() by the  *)
(* number removed; after grow_insert_all(s, e) on an empty set and         *)
(* remove_all(a, b) with s <= a <= b <= e, ascending() yields s..a         *)
(* followed by b..e.                                                       *)
(***************************************************************************)
C6_RemoveAll ==
    ( /\ op = "remove_all"
      /\ args[1] <= args[2]
      /\ (args[1] = args[2] \/ args[2] <= maximum(pre)) )
    => LET r == Range(args[1], args[2]) IN
       /\ ret = Some(Unit)
       /\ Members(Cur) = Members(pre) \ r
       /\ len_of(Cur) = len_of(pre) - Cardinality(r \cap Members(pre))
       /\ \A s \in RangeStarts, e \in RangeEnds :
            (s <= args[1] /\ args[2] <= e /\ Members(pre) = Range(s, e))
            => ascending(Cur).seq = SeqRange(s, args[1]) \o SeqRange(args[2], e)

\* A filled range s..e loses a partial leading word, a whole interior word and
\* a partial trailing word, and keeps the members after them.
C6_Witness ==
    /\ op = "remove_all"
    /\ bits_to_chunk(args[2]) > bits_to_chunk(args[1]) + 1
    /\ args[1] % BITS_USIZE # 0
    /\ args[2] % BITS_USIZE # 0
    /\ \E s \in RangeStarts, e \in RangeEnds :
         /\ s <= args[1]
         /\ args[2] < e
         /\ Members(pre) = Range(s, e)
    /\ ret = Some(Unit)

(***************************************************************************)
(* C7  For value < maximum(), insert(value) returns Some(b), b being       *)
(* whether value was a member before; afterwards contains(value) is true,  *)
(* membership of every other index and maximum() are unchanged, len() has  *)
(* grown by 1 if b was false and by 0 if b was true, and a second insert   *)
(* of the same value leaves the state as it is.                            *)
(***************************************************************************)
C7_Insert ==
    (op = "insert" /\ args[1] < maximum(pre)) =>
        LET b == contains(pre, args[1]) IN
        /\ ret = Some(b)
        /\ contains(Cur, args[1])
        /\ \A i \in Universe \ { args[1] } : contains(Cur, i) = contains(pre, i)
        /\ maximum(Cur) = maximum(pre)
        /\ len_of(Cur) = len_of(pre) + (IF b THEN 0 ELSE 1)
        /\ insert(Cur, args[1]).s = Cur

\* insert of a value that was already a member, among other members.
C7_Witness ==
    /\ op = "insert"
    /\ ret = Some(TRUE)
    /\ len >= 2

(***************************************************************************)
(* C8  For value >= maximum(), insert(value) and remove(value) both return *)
(* None and leave the set unchanged: membership of every index, len() and  *)
(* maximum() are as before the call.                                       *)
(***************************************************************************)
C8_OutOfCapacity ==
    (op \in { "insert", "remove" } /\ args[1] >= maximum(pre)) =>
        /\ is_none(ret)
        /\ Observable(Cur) = Observable(pre)
        /\ Cur = pre

\* remove of a value past the buffer of a non-empty set.
C8_Witness ==
    /\ op = "remove"
    /\ args[1] >= maximum(pre)
    /\ pre.len > 0
    /\ is_none(ret)

(***************************************************************************)
(* C9  Round trip: insert(v) directly followed by remove(v), v in          *)
(* capacity.                                                               *)
(***************************************************************************)
\* The last two calls were insert(v) and remove(v) on a set with v in capacity.
RoundTrip == op = "remove" /\ is_some(chained) /\ args[1] < maximum(chained[1])

\* C9 as claimed: the pair restores the membership of every index, v included,
\* and len() to what they were before the insert.
C9_RoundTrip ==
    RoundTrip =>
        /\ Members(Cur) = Members(chained[1])
        /\ len_of(Cur) = len_of(chained[1])

\* C9 as amended: the pair restores the membership of every index other than v
\* and leaves v absent; it restores the membership of v and len() when v was
\* not a member before the insert, and when v was a member len() is one less.
C9_RoundTripOfAbsent ==
    RoundTrip =>
        LET before == chained[1]
            v      == args[1]
        IN  /\ Members(Cur) = Members(before) \ { v }
            /\ ~contains(before, v) =>
                 /\ Members(Cur) = Members(before)
                 /\ len_of(Cur) = len_of(before)
            /\ contains(before, v) => len_of(Cur) = len_of(before) - 1

\* The round trip of a value that was absent, on a non-empty set.
C9_Witness ==
    /\ RoundTrip
    /\ ~contains(chained[1], args[1])
    /\ chained[1].len > 0
    /\ Cur = chained[1]

(***************************************************************************)
(* C10  Capacity of a set built by from_iter, or by extend on a new() set, *)
(* from a non-empty sequence of indices with greatest index M.             *)
(***************************************************************************)
\* The last call built the set from the non-empty sequence args[1].
Built ==
    /\ \/ op = "from_iter"
       \/ op = "extend" /\ pre = Owned_new
    /\ args[1] # << >>

\* C10 as claimed: maximum() equals 64 * (M div 64 + 1), the smallest
\* word-aligned capacity that contains M.
C10_ExactCapacity ==
    Built => maximum(Cur) = BITS_USIZE * ((Max(Elements(args[1])) \div BITS_USIZE) + 1)

\* C10 as amended: maximum() is at least 64 * ((M + 1) div 64 + 1), the smallest
\* word-aligned capacity that contains M + 1, and so exceeds M; it may be more.
C10_SufficientCapacity ==
    Built =>
        LET M == Max(Elements(args[1])) IN
        /\ maximum(Cur) >= BITS_USIZE * (((M + 1) \div BITS_USIZE) + 1)
        /\ maximum(Cur) > M
        /\ contains(Cur, M)

\* from_iter of indices whose greatest is the last bit of the first word: the
\* set holds two words.
C10_Witness ==
    /\ op = "from_iter"
    /\ args[1] # << >>
    /\ Max(Elements(args[1])) = BITS_USIZE - 1
    /\ maximum(Cur) = chunk_to_bits(2)

(***************************************************************************)
(* C11, C12  The sets the current set is compared with: the set before the *)
(* last call when it has at most MaxCompared members, the sets from_iter   *)
(* builds from the values, and an empty set of full capacity.              *)
(***************************************************************************)
Others ==
    (IF len_of(pre) <= MaxCompared THEN { pre } ELSE {})
    \cup { with_maximum(MaxWords) }
    \cup { from_iter(it, 0) : it \in { << >> } \cup { << v >> : v \in Values }
                                       \cup { x \in Values \X Values : x[1] < x[2] } }

\* C11: two sets compare equal if and only if they contain exactly the same
\* members, whatever their buffer lengths: a set stays equal to its former
\* self across grow_maximum and shrink_to_fit, and two empty sets of any
\* capacities are equal.
C11_EqualityIsMembership ==
    /\ \A o \in Others :
         \A same \in { \A i \in Universe : contains(Cur, i) <=> contains(o, i) } :
            /\ Owned_eq(Cur, o) <=> same
            /\ Owned_eq(o, Cur) <=> same
    /\ op \in { "grow_maximum", "shrink_to_fit" } => Owned_eq(Cur, pre)
    /\ len_of(Cur) = 0 => \A c \in 0 .. MaxWords : Owned_eq(Cur, with_maximum(c))

\* grow_maximum gave a non-empty set a longer buffer; it still equals its
\* former self and differs from a set with other members.
C11_Witness ==
    /\ op = "grow_maximum"
    /\ Len(data) > Len(pre.data)
    /\ len > 0
    /\ Owned_eq(Cur, pre)
    /\ \E o \in Others : o.len = len /\ ~Owned_eq(Cur, o)

\* The lexicographic order of two sequences of naturals, a proper prefix first.
LexCmp(p, q) ==
    LET shorter == IF Len(p) < Len(q) THEN Len(p) ELSE Len(q)
        differ  == { i \in 1 .. shorter : p[i] # q[i] }
    IN  IF differ # {}
        THEN (IF p[Min(differ)] < q[Min(differ)] THEN "Less" ELSE "Greater")
        ELSE IF Len(p) < Len(q) THEN "Less"
        ELSE IF Len(p) > Len(q) THEN "Greater"
        ELSE "Equal"

Flip(ord) == IF ord = "Less" THEN "Greater" ELSE IF ord = "Greater" THEN "Less" ELSE ord

\* C12: cmp is the lexicographic comparison of the ascending member sequences,
\* a proper prefix sorting first; it is a total order (antisymmetric,
\* transitive) that ignores maximum() and is Equal exactly when the sets are ==.
C12_CmpIsLexicographic ==
    /\ \A a \in { ascending(Cur).seq } :
       \A ord \in { [ o \in Others |-> Owned_cmp(Cur, o) ] } :
         /\ \A o \in Others :
              /\ ord[o] = LexCmp(a, ascending(o).seq)
              /\ Owned_cmp(o, Cur) = Flip(ord[o])
              /\ (ord[o] = "Equal") <=> Owned_eq(Cur, o)
         /\ \A o1 \in Others, o2 \in Others :
              (ord[o1] # "Less" /\ ord[o2] # "Greater")
              => Owned_cmp(o1, o2) # "Greater"
    /\ op \in { "grow_maximum", "shrink_to_fit" } => Owned_cmp(Cur, pre) = "Equal"

\* The set a remove left is less than one set by its first member and less
\* than another by being its proper prefix (as {3} < {5} and {5} < {5, 6}).
C12_Witness ==
    /\ op = "remove"
    /\ pre # Cur
    /\ len > 0
    /\ \E o1 \in Others, o2 \in Others :
         /\ o1.len > 0
         /\ ascending(Cur).seq[1] < ascending(o1).seq[1]
         /\ Owned_cmp(Cur, o1) = "Less"
         /\ o2.len > len
         /\ SubSeq(ascending(o2).seq, 1, len) = ascending(Cur).seq
         /\ Owned_cmp(Cur, o2) = "Less"

\* The words of d after the first n are all zero.
ZeroBeyond(d, n) == \A i \in (n + 1) .. Len(d) : d[i] = {}

\* C13: after clone_from_slice(source) the set contains exactly the source's
\* members, len() is the source's len, maximum() is at least the source's
\* maximum() and at least the previous maximum(), and every word beyond the
\* copied source words is zero.
C13_CloneFromSlice ==
    op = "clone_from_slice" =>
        /\ Members(Cur) = { i \in Universe : Borrowed_contains(args[1], i) }
        /\ len_of(Cur) = Borrowed_len(args[1])
        /\ maximum(Cur) >= Borrowed_maximum(args[1])
        /\ maximum(Cur) >= maximum(pre)
        /\ SubSeq(data, 1, Len(args[1].data)) = args[1].data
        /\ ZeroBeyond(data, Len(args[1].data))

\* clone_from_slice dropped a member of the old target and kept the longer
\* buffer of the target, the source being non-empty.
C13_Witness ==
    /\ op = "clone_from_slice"
    /\ \E i \in Universe : contains(pre, i) /\ ~contains(Cur, i)
    /\ Len(data) > Len(args[1].data)
    /\ len > 0

\* C14: grow_maximum(m) only adds zero capacity: afterwards maximum() > m,
\* membership of every index and len() are unchanged, maximum() is not
\* smaller than before, and when m was within capacity the buffer is left
\* exactly as it was.
C14_GrowMaximum ==
    op = "grow_maximum" =>
        /\ maximum(Cur) > args[1]
        /\ Members(Cur) = Members(pre)
        /\ len_of(Cur) = len_of(pre)
        /\ maximum(Cur) >= maximum(pre)
        /\ SubSeq(data, 1, Len(pre.data)) = pre.data
        /\ ZeroBeyond(data, Len(pre.data))
        /\ args[1] < maximum(pre) => Cur = pre

\* grow_maximum(m) with m exactly the old maximum() grew a non-empty set.
C14_Witness ==
    /\ op = "grow_maximum"
    /\ args[1] = maximum(pre)
    /\ maximum(Cur) > maximum(pre)
    /\ len > 0

\* C15: shrink_to_fit() drops exactly the trailing all-zero words: afterwards
\* maximum() is 64 * (chunk index of the largest member + 1), or 0 for an empty
\* set, membership of every index and len() are unchanged, and an insert of a
\* value at or above the new maximum() returns None.
C15_ShrinkToFit ==
    op = "shrink_to_fit" =>
        \A m \in { Members(pre) } :
            /\ maximum(Cur) = IF m = {} THEN 0
                              ELSE BITS_USIZE * (bits_to_chunk(Max(m)) + 1)
            /\ Members(Cur) = m
            /\ len_of(Cur) = len_of(pre)
            /\ \A v \in Values \cup { maximum(Cur), maximum(Cur) + 1 } :
                 v >= maximum(Cur) => is_none(insert(Cur, v).ret)

\* shrink_to_fit dropped trailing zero words of a non-empty set.
C15_Witness ==
    /\ op = "shrink_to_fit"
    /\ Len(data) < Len(pre.data)
    /\ len > 0

\* C16: after clear() every word is zero (contains(i) is false for every i),
\* len() is 0 and maximum() is unchanged; a second clear() leaves the state
\* identical.
C16_Clear ==
    op = "clear" =>
        /\ ZeroBeyond(data, 0)
        /\ Members(Cur) = {}
        /\ len_of(Cur) = 0
        /\ maximum(Cur) = maximum(pre)
        /\ clear(Cur).s = Cur

\* clear() emptied a set whose last member lies before its last word, so the
\* loop stopped before the end of the buffer.
C16_Witness ==
    /\ op = "clear"
    /\ pre.len > 1
    /\ last_non_zero(pre.data) < Len(pre.data)
    /\ Cardinality({ i \in 1 .. Len(pre.data) : pre.data[i] # {} }) > 1

\* C17: in every state reachable through the public mutators every unchecked
\* word access stays inside the buffer: no call has run into undefined
\* behaviour, a full ascending and a full descending traversal never read
\* outside the words, also when next() is called again after exhaustion, and
\* clear() never touches a position at or beyond the word count.
C17_InBounds ==
    /\ ~ub
    /\ \A up \in { ascending(Cur) } :
         ~up.oob /\ ~Ascending_take(data, up.a, 2).oob
    /\ \A down \in { descending(Cur) } :
         ~down.oob /\ ~Descending_take(data, down.a, 2).oob
    /\ ~clear(Cur).oob

\* The first word holds its two highest bits, the last word holds members and
\* a zero word lies between:
\* the ascending cursor skips a word and reads the last word, the descending
\* cursor skips a word and reads down to position 0.
C17_Witness ==
    /\ Len(data) > 2
    /\ { BITS_USIZE - 2, BITS_USIZE - 1 } \subseteq data[1]
    /\ data[2] = {}
    /\ data[Len(data)] # {}
    /\ Len(ascending(Cur).seq) = len
    /\ Len(descending(Cur).seq) = len
    /\ ~ub

\* C18: insert_all(start, end) and remove_all(start, end) return Some(()) if
\* and only if start >= end or end <= maximum(); an empty or inverted range
\* succeeds without touching the set, also when start is out of capacity.
C18_RangeResult ==
    op \in { "insert_all", "remove_all" } =>
        /\ is_some(ret) <=> (args[1] >= args[2] \/ args[2] <= maximum(pre))
        /\ args[1] >= args[2] => (Cur = pre /\ ret = Some(Unit))

\* insert_all or remove_all of an empty or inverted range whose start is out
\* of capacity succeeded on a non-empty set.
C18_Witness ==
    /\ op \in { "insert_all", "remove_all" }
    /\ args[1] >= args[2]
    /\ args[1] >= maximum(pre)
    /\ ret = Some(Unit)
    /\ len > 0

\* C19: when insert_all(start, end) (resp. remove_all) returns None, membership
\* of every index outside [start, end) is unchanged and there is a k with
\* start <= k <= end such that every index in [start, k) is now present (resp.
\* absent) while every index in [k, end) keeps its prior membership; nothing
\* is rolled back (k > start when start was within capacity), the buffer
\* length is unchanged and len() matches the resulting bits.
C19_PartialFailure ==
    (op \in { "insert_all", "remove_all" } /\ is_none(ret)) =>
        \A before \in { Members(pre) }, after \in { Members(Cur) } :
            /\ after \ Range(args[1], args[2]) = before \ Range(args[1], args[2])
            /\ \E k \in args[1] .. args[2] :
                 /\ \A i \in Range(args[1], k) : (i \in after) <=> (op = "insert_all")
                 /\ \A i \in Range(k, args[2]) : (i \in after) <=> (i \in before)
                 /\ args[1] < maximum(pre) => k > args[1]
            /\ len_of(Cur) = Cardinality(after)
            /\ len_of(Cur) = PopCount(data)
            /\ maximum(Cur) = maximum(pre)

\* insert_all returned None after setting a prefix of the range, leaving an
\* index of the range that is within capacity absent.
C19_Witness ==
    /\ op = "insert_all"
    /\ is_none(ret)
    /\ Cur # pre
    /\ \E i \in Range(args[1], args[2]) : i < maximum(pre) /\ ~contains(Cur, i)

\* C20: for any word, under any interleaving of next() and next_back(), each
\* one-bit position of the word is yielded at most once and nothing else is
\* yielded, next() yields the lowest and next_back() the highest position not
\* yet yielded, `remaining` is the number of one-bits not yet yielded, a call
\* returns None exactly when `remaining` was 0, everything has been yielded
\* once `remaining` is 0, and a full forward traversal is the reverse of a
\* full backward traversal.
C20_WordIterator ==
    \A yielded \in { Elements(front) \cup Elements(back) } :
        /\ Cardinality(yielded) = Len(front) + Len(back)
        /\ yielded \subseteq word
        /\ inner = word \ yielded
        /\ remaining = count_ones(word) - Cardinality(yielded)
        /\ StrictlyIncreasing(front \o Reverse(back))
        /\ last.call # "new" => (is_none(last.ret) <=> last.before.remaining = 0)
        /\ (last.call = "next" /\ is_some(last.ret))
             => last.ret[1] = Min(last.before.inner)
        /\ (last.call = "next_back" /\ is_some(last.ret))
             => last.ret[1] = Max(last.before.inner)
        /\ remaining = 0 => yielded = word
        /\ (remaining = 0 /\ back = << >>) => front = Reverse(Iter_rev_collect(word))
        /\ (remaining = 0 /\ front = << >>) => back = Reverse(Iter_collect(word))

\* An iterator exhausted by interleaved calls, at least two from each end, was
\* called once more.
C20_Witness ==
    /\ remaining = 0
    /\ Len(front) >= 2
    /\ Len(back) >= 2
    /\ last.before.remaining = 0
    /\ last.ret = None

====
